---- MODULE Spec2Model ----
(***************************************************************************)
(* Model of src/main.py: the one-shot Power BI report migration.  main()   *)
(* is a straight-line program; every call it makes to an external system   *)
(* (secret store, identity provider, Power BI REST API, object storage) is *)
(* one step whose response is chosen by the environment.                   *)
(*                                                                         *)
(* Strings that the code inspects character by character (report names,    *)
(* the IGNORE_REPORTS environment value) are sequences of one-character    *)
(* strings.  Python's None is the string "None" for identifiers and an     *)
(* option record [isNone, val] for values that are otherwise sequences.    *)
(***************************************************************************)
EXTENDS Integers, Sequences, FiniteSets, TLC

VARIABLES
    pc,                        \* position of main()
    error,                     \* exception propagated out of main(), "None" if none
    ignore_names,              \* the list of names IGNORE_REPORTS was written from
    ignore_reports,            \* main.py:13, os.getenv("IGNORE_REPORTS")
    vgm_token_status,          \* HTTP status of the source tenant's token request (0: not sent)
    ft_token_status,           \* HTTP status of the destination tenant's token request
    token_vgm,                 \* main.py:138
    token_ft,                  \* main.py:146
    source_workspace_id,       \* main.py:139
    target_workspace_id,       \* main.py:147
    src_status,                \* HTTP status of the source catalog listing (0: not sent)
    dst_status,                \* HTTP status of the destination catalog listing
    dst_catalog,               \* the reports the destination catalog listing answered with
    source_reports_dict,       \* main.py:140
    dst_reports_dict,          \* main.py:148, appended to at main.py:182
    dst_reports_dict_by_name,  \* main.py:149
    i,                         \* position of the for loop of main.py:156 (1-based)
    calls,                     \* export / archive / import calls made, in order
    log                        \* lines printed to stdout, in order

vars == <<pc, error, ignore_names, ignore_reports, vgm_token_status, ft_token_status,
          token_vgm, token_ft, source_workspace_id, target_workspace_id,
          src_status, dst_status, dst_catalog, source_reports_dict, dst_reports_dict,
          dst_reports_dict_by_name, i, calls, log>>

----------------------------------------------------------------------------
(* Bounds and input domains *)

MaxReports == 2     \* longest source catalog
MaxDst == 1         \* longest destination catalog
MaxIgnore == 1      \* most names in the ignore list
MaxGroups == 2      \* longest workspace listing

HTTP_OK == 200

\* Report names returned by the catalog listings.  "a" is a proper substring
\* of "aA"; "a" and "A" differ only in case.
Names == { <<"a">>, <<"A">>, <<"a", "A">> }

\* Bytes returned by the export endpoint; <<>> is b"".
Contents == { <<>>, <<1>>, <<2>> }

\* The workspaces a tenant can return in its groups listing.
Workspaces == { [id |-> "g1", name |-> "W"], [id |-> "g2", name |-> "X"],
                [id |-> "g3", name |-> "W"] }

workspace_name == "W"

SeqsUpTo(S, n) == UNION { [1..k -> S] : k \in 0..n }

\* A catalog listing: the k-th report of the response has id base + k.
Catalog(names, base) == [k \in 1..Len(names) |-> [id |-> base + k, name |-> names[k]]]

Some(v) == [isNone |-> FALSE, val |-> v]
NoneSeq == [isNone |-> TRUE, val |-> <<>>]

----------------------------------------------------------------------------
(* Pure helpers *)

\* The text of IGNORE_REPORTS for a list of names: ["n1", "n2"]
Quoted(name) == <<"\"">> \o name \o <<"\"">>

RECURSIVE JoinQuoted(_)
JoinQuoted(l) ==
    IF l = <<>> THEN <<>>
    ELSE IF Len(l) = 1 THEN Quoted(l[1])
    ELSE Quoted(l[1]) \o <<",", " ">> \o JoinQuoted(Tail(l))

JsonList(l) == <<"[">> \o JoinQuoted(l) \o <<"]">>

\* response.raise_for_status(): raises for 4xx and 5xx
RaisesForStatus(status) == status >= 400 /\ status < 600

StrContainsEq(sub, s) == sub = s

\* Python's `sub in s` for two str: substring search
StrContains(sub, s) ==
    \E k \in 0..(Len(s) - Len(sub)) : SubSeq(s, k + 1, k + Len(sub)) = sub

Lower(name) == [k \in 1..Len(name) |-> IF name[k] = "A" THEN "a" ELSE name[k]]

DictContainsLower(name, d) == Lower(name) \in DOMAIN d

\* Python's `key in d` for a dict
DictContains(name, d) == name \in DOMAIN d

\* { report.get("name"): report for report in reports }: the last report of a name wins
ByName(reports) ==
    [n \in { reports[k].name : k \in DOMAIN reports } |->
        reports[CHOOSE k \in DOMAIN reports :
                    /\ reports[k].name = n
                    /\ \A j \in DOMAIN reports : reports[j].name = n => j <= k]]

TruthyAlways(content) == TRUE

\* `if report_content:` for bytes
Truthy(content) == Len(content) > 0

\* get_workspace: id of the first workspace of that name, None if there is none
get_workspace(groups, name) ==
    LET ws == { k \in DOMAIN groups : groups[k].name = name }
    IN  IF ws # {} THEN groups[CHOOSE k \in ws : \A j \in ws : k <= j].id ELSE "None"

\* get_reports: the listing on HTTP 200, None otherwise
get_reports(status, listing) == IF status = HTTP_OK THEN Some(listing) ELSE NoneSeq

\* import_report: the response's JSON on 202, None otherwise
import_report(status) == IF status # 202 THEN "None" ELSE "import_descriptor"

Call(fn, idx, group, id, name, content, ok) ==
    [fn |-> fn, idx |-> idx, group |-> group, id |-> id, name |-> name,
     content |-> content, ok |-> ok]

ExportCall(idx, report, content, ok) ==
    Call("export_report", idx, source_workspace_id, report.id, <<>>, content, ok)

UploadCall(idx, content, name) ==
    Call("upload_report_to_gcs", idx, "None", 0, name, content, TRUE)

ImportCall(idx, name, content, status) ==
    Call("import_report", idx, target_workspace_id, 0, name, content, status = 202)

MigrationCallsImportFirst(idx, report, content, status) ==
    << ImportCall(idx, report.name, content, status),
       UploadCall(idx, content, report.name) >>

\* main.py:174-177: archive, then import, both with the exported bytes
MigrationCalls(idx, report, content, status) ==
    << UploadCall(idx, content, report.name),
       ImportCall(idx, report.name, content, status) >>

Line(msg, idx, name, detail) == [msg |-> msg, idx |-> idx, name |-> name, detail |-> detail]

----------------------------------------------------------------------------
(* State after module import, before main() runs *)

Init ==
    /\ pc = "get_secret"
    /\ error = "None"
    /\ ignore_names \in SeqsUpTo(Names, MaxIgnore)
    /\ \/ ignore_reports = Some(JsonList(ignore_names))
       \/ ignore_names = <<>> /\ ignore_reports = NoneSeq     \* variable not set
    /\ vgm_token_status = 0
    /\ ft_token_status = 0
    /\ token_vgm = "unset"
    /\ token_ft = "unset"
    /\ source_workspace_id = "unset"
    /\ target_workspace_id = "unset"
    /\ src_status = 0
    /\ dst_status = 0
    /\ dst_catalog = <<>>
    /\ source_reports_dict = NoneSeq
    /\ dst_reports_dict = NoneSeq
    /\ dst_reports_dict_by_name = ByName(<<>>)
    /\ i = 0
    /\ calls = <<>>
    /\ log = <<>>

Raise(exc) == pc' = "aborted" /\ error' = exc

----------------------------------------------------------------------------
(* main(), one action per call *)

\* main.py:133-135
GetSecret ==
    /\ pc = "get_secret"
    /\ \E ok \in BOOLEAN :
          IF ok THEN pc' = "token_vgm" /\ error' = error
                ELSE Raise("SecretError")
    /\ UNCHANGED <<ignore_names, ignore_reports, vgm_token_status, ft_token_status,
                   token_vgm, token_ft, source_workspace_id, target_workspace_id,
                   src_status, dst_status, dst_catalog, source_reports_dict,
                   dst_reports_dict, dst_reports_dict_by_name, i, calls, log>>

\* main.py:138, get_access_token
GetTokenVgm ==
    /\ pc = "token_vgm"
    /\ \E status \in {200, 401} :
          /\ vgm_token_status' = status
          /\ log' = IF status # HTTP_OK
                    THEN Append(log, Line("Failed to get access token", 0, <<>>, "vgm"))
                    ELSE log
          /\ IF RaisesForStatus(status)
             THEN Raise("HTTPError") /\ token_vgm' = token_vgm
             ELSE pc' = "workspace_src" /\ error' = error /\ token_vgm' = "access_token_vgm"
    /\ UNCHANGED <<ignore_names, ignore_reports, ft_token_status, token_ft,
                   source_workspace_id, target_workspace_id, src_status, dst_status,
                   dst_catalog, source_reports_dict, dst_reports_dict, dst_reports_dict_by_name,
                   i, calls>>

\* main.py:139, get_workspace
GetWorkspaceSrc ==
    /\ pc = "workspace_src"
    /\ \E status \in {200, 403}, groups \in SeqsUpTo(Workspaces, MaxGroups) :
          IF RaisesForStatus(status)
          THEN Raise("HTTPError") /\ source_workspace_id' = source_workspace_id
          ELSE /\ pc' = "reports_src"
               /\ error' = error
               /\ source_workspace_id' = get_workspace(groups, workspace_name)
    /\ UNCHANGED <<ignore_names, ignore_reports, vgm_token_status, ft_token_status,
                   token_vgm, token_ft, target_workspace_id, src_status, dst_status,
                   dst_catalog, source_reports_dict, dst_reports_dict, dst_reports_dict_by_name,
                   i, calls, log>>

\* main.py:140-143, get_reports and len() of its result
GetReportsSrc ==
    /\ pc = "reports_src"
    /\ \E status \in {200, 404}, names \in SeqsUpTo(Names, MaxReports) :
          LET result == get_reports(status, Catalog(names, 0))
              printed == IF status = HTTP_OK THEN log
                         ELSE Append(log, Line("Error retrieving the list of reports",
                                               0, <<>>, source_workspace_id))
          IN  /\ src_status' = status
              /\ source_reports_dict' = result
              /\ IF result.isNone
                 THEN Raise("TypeError") /\ log' = printed
                 ELSE /\ pc' = "token_ft"
                      /\ error' = error
                      /\ log' = Append(printed, Line("Number of reports in VGM",
                                                     Len(result.val), <<>>, ""))
    /\ UNCHANGED <<ignore_names, ignore_reports, vgm_token_status, ft_token_status,
                   token_vgm, token_ft, source_workspace_id, target_workspace_id,
                   dst_status, dst_catalog, dst_reports_dict, dst_reports_dict_by_name,
                   i, calls>>

\* main.py:146, get_access_token
GetTokenFt ==
    /\ pc = "token_ft"
    /\ \E status \in {200, 401} :
          /\ ft_token_status' = status
          /\ log' = IF status # HTTP_OK
                    THEN Append(log, Line("Failed to get access token", 0, <<>>, "ft"))
                    ELSE log
          /\ IF RaisesForStatus(status)
             THEN Raise("HTTPError") /\ token_ft' = token_ft
             ELSE pc' = "workspace_dst" /\ error' = error /\ token_ft' = "access_token_ft"
    /\ UNCHANGED <<ignore_names, ignore_reports, vgm_token_status, token_vgm,
                   source_workspace_id, target_workspace_id, src_status, dst_status,
                   dst_catalog, source_reports_dict, dst_reports_dict, dst_reports_dict_by_name,
                   i, calls>>

\* main.py:147, get_workspace
GetWorkspaceDst ==
    /\ pc = "workspace_dst"
    /\ \E status \in {200, 403}, groups \in SeqsUpTo(Workspaces, MaxGroups) :
          IF RaisesForStatus(status)
          THEN Raise("HTTPError") /\ target_workspace_id' = target_workspace_id
          ELSE /\ pc' = "reports_dst"
               /\ error' = error
               /\ target_workspace_id' = get_workspace(groups, workspace_name)
    /\ UNCHANGED <<ignore_names, ignore_reports, vgm_token_status, ft_token_status,
                   token_vgm, token_ft, source_workspace_id, src_status, dst_status,
                   dst_catalog, source_reports_dict, dst_reports_dict, dst_reports_dict_by_name,
                   i, calls, log>>

\* main.py:148-154, get_reports, the name-keyed dict and len()
GetReportsDst ==
    /\ pc = "reports_dst"
    /\ \E status \in {200, 404}, names \in SeqsUpTo(Names, MaxDst) :
          LET result == get_reports(status, Catalog(names, 100))
              printed == IF status = HTTP_OK THEN log
                         ELSE Append(log, Line("Error retrieving the list of reports",
                                               0, <<>>, target_workspace_id))
          IN  /\ dst_status' = status
              /\ dst_catalog' = IF status = HTTP_OK THEN Catalog(names, 100) ELSE <<>>
              /\ dst_reports_dict' = result
              /\ IF result.isNone
                 THEN /\ Raise("TypeError")
                      /\ log' = printed
                      /\ UNCHANGED <<dst_reports_dict_by_name, i>>
                 ELSE /\ pc' = "loop"
                      /\ error' = error
                      /\ dst_reports_dict_by_name' = ByName(result.val)
                      /\ log' = Append(printed, Line("Number of reports in FastTrack",
                                                     Len(result.val), <<>>, ""))
                      /\ i' = 1
    /\ UNCHANGED <<ignore_names, ignore_reports, vgm_token_status, ft_token_status,
                   token_vgm, token_ft, source_workspace_id, target_workspace_id,
                   src_status, source_reports_dict, calls>>

----------------------------------------------------------------------------
(* The for loop of main.py:156-188, one action per path through its body *)

InLoop == pc = "loop" /\ i <= Len(source_reports_dict.val)

report == source_reports_dict.val[i]

\* main.py:158 with a str
Ignored == ~ignore_reports.isNone /\ StrContains(report.name, ignore_reports.val)

\* main.py:160
AlreadyExists == DictContains(report.name, dst_reports_dict_by_name)

Started == log \o << Line("INFO --Report Migration Started for", i, report.name, ""),
                     Line("report id", report.id, <<>>, "") >>

config == <<ignore_names, ignore_reports>>
setup == <<vgm_token_status, ft_token_status, token_vgm, token_ft, source_workspace_id,
           target_workspace_id, src_status, dst_status, dst_catalog, source_reports_dict,
           dst_reports_dict_by_name>>

\* main.py:158: `report_name not in None` raises TypeError
LoopTypeError ==
    /\ InLoop
    /\ ignore_reports.isNone
    /\ Raise("TypeError")
    /\ UNCHANGED <<config, setup, dst_reports_dict, i, calls, log>>

\* main.py:158: the name is found in IGNORE_REPORTS
LoopIgnored ==
    /\ InLoop
    /\ Ignored
    /\ i' = i + 1
    /\ UNCHANGED <<pc, error, config, setup, dst_reports_dict, calls, log>>

\* main.py:160-164
LoopAlreadyExists ==
    /\ InLoop
    /\ ~ignore_reports.isNone /\ ~Ignored
    /\ AlreadyExists
    /\ log' = Append(log, Line("INFO --Report already exists in the destination. Skipping migration.",
                               i, report.name, ""))
    /\ i' = i + 1
    /\ UNCHANGED <<pc, error, config, setup, dst_reports_dict, calls>>

\* main.py:166-172 with export_report raising at main.py:99
LoopExportRaises ==
    /\ InLoop
    /\ ~ignore_reports.isNone /\ ~Ignored
    /\ ~AlreadyExists
    /\ \E status \in {404, 500} :
          /\ RaisesForStatus(status)
          /\ calls' = Append(calls, ExportCall(i, report, <<>>, FALSE))
    /\ log' = Started
    /\ Raise("HTTPError")
    /\ UNCHANGED <<config, setup, dst_reports_dict, i>>

\* main.py:166-173, 183-188: export returned b""
LoopExportEmpty ==
    /\ InLoop
    /\ ~ignore_reports.isNone /\ ~Ignored
    /\ ~AlreadyExists
    /\ \E report_content \in Contents :
          /\ ~Truthy(report_content)
          /\ calls' = Append(calls, ExportCall(i, report, report_content, TRUE))
    /\ log' = Started \o << Line("ERROR -- Report Migration Failed for", i, report.name, ""),
                            Line("Migration took", i, <<>>, "") >>
    /\ i' = i + 1
    /\ UNCHANGED <<pc, error, config, setup, dst_reports_dict>>

\* main.py:166-182, 186-188: export returned content
LoopMigrate ==
    /\ InLoop
    /\ ~ignore_reports.isNone /\ ~Ignored
    /\ ~AlreadyExists
    /\ \E report_content \in Contents, status \in {202, 400} :
          /\ Truthy(report_content)
          /\ calls' = Append(calls, ExportCall(i, report, report_content, TRUE))
                        \o MigrationCalls(i, report, report_content, status)
          /\ log' = Started
                \o << Line("Report uploaded", i, report.name, "") >>
                \o (IF status # 202
                    THEN << Line("import response body", i, <<>>, "") >>
                    ELSE <<>>)
                \o << Line("INFO --Report Migration Successful for Report ID", i, <<>>,
                           import_report(status)),
                      Line("Migration took", i, <<>>, "") >>
    /\ dst_reports_dict' = Some(Append(dst_reports_dict.val, report))
    /\ i' = i + 1
    /\ UNCHANGED <<pc, error, config, setup>>

\* main.py:156: the source list is exhausted, main returns
LoopEnd ==
    /\ pc = "loop"
    /\ i > Len(source_reports_dict.val)
    /\ pc' = "done"
    /\ UNCHANGED <<error, config, setup, dst_reports_dict, i, calls, log>>

Next ==
    \/ GetSecret
    \/ GetTokenVgm
    \/ GetWorkspaceSrc
    \/ GetReportsSrc
    \/ GetTokenFt
    \/ GetWorkspaceDst
    \/ GetReportsDst
    \/ LoopTypeError
    \/ LoopIgnored
    \/ LoopAlreadyExists
    \/ LoopExportRaises
    \/ LoopExportEmpty
    \/ LoopMigrate
    \/ LoopEnd

Spec == Init /\ [][Next]_vars

----------------------------------------------------------------------------
(* Vocabulary of the properties *)

Src == source_reports_dict.val

Range(f) == { f[k] : k \in DOMAIN f }

IgnoreSet == Range(ignore_names)

DstNames == { dst_catalog[k].name : k \in DOMAIN dst_catalog }

Ended == pc \in {"done", "aborted"}

CallsFor(idx, fn) == { k \in DOMAIN calls : calls[k].idx = idx /\ calls[k].fn = fn }

AnyCallFor(idx) == \E k \in DOMAIN calls : calls[k].idx = idx

Migrated(idx) ==
    /\ CallsFor(idx, "export_report") # {}
    /\ CallsFor(idx, "upload_report_to_gcs") # {}
    /\ CallsFor(idx, "import_report") # {}

Logged(msg, idx) == \E k \in DOMAIN log : log[k].msg = msg /\ log[k].idx = idx

\* Both workspaces were resolved to an id.
WorkspacesFound == source_workspace_id # "None" /\ target_workspace_id # "None"

\* The loop has gone past the idx-th source report.
Processed(idx) == pc \in {"loop", "done"} /\ idx \in DOMAIN Src /\ idx < i

----------------------------------------------------------------------------
(* Properties *)

\* C1: when both workspaces were found, both catalog listings succeeded,
\* IGNORE_REPORTS is configured and every export returned non-empty content,
\* then at the end of the run every
\* source name that is neither an element of the ignore list nor the name of a
\* destination report has a source report of that name exported, archived and
\* submitted for import.
C1_EveryEligibleNameMigrated ==
    ( /\ Ended
      /\ WorkspacesFound
      /\ src_status = HTTP_OK /\ dst_status = HTTP_OK
      /\ ~ignore_reports.isNone
      /\ \A k \in DOMAIN calls :
            calls[k].fn = "export_report" => calls[k].ok /\ calls[k].content # <<>> )
    => \A j \in DOMAIN Src :
          (Src[j].name \notin IgnoreSet /\ Src[j].name \notin DstNames)
          => \E r \in DOMAIN Src : Src[r].name = Src[j].name /\ Migrated(r)

\* C2: no export, archive or import call is ever made for a source report
\* whose name is an element of the ignore list.
C2_IgnoredNeverTransferred ==
    \A k \in DOMAIN calls : Src[calls[k].idx].name \notin IgnoreSet

C2_Witness ==
    /\ pc = "done"
    /\ calls # <<>>
    /\ \E j \in DOMAIN Src : Src[j].name \in IgnoreSet

\* C3: no export, archive or import call is ever made for a source report that
\* is not on the ignore list and whose name equals, character for character,
\* the name of a report of the destination catalog listing.
C3_ExistingNeverTransferred ==
    \A j \in DOMAIN Src :
        (Src[j].name \notin IgnoreSet /\ Src[j].name \in DstNames) => ~AnyCallFor(j)

C3_Witness ==
    /\ pc = "done"
    /\ calls # <<>>
    /\ \E j \in DOMAIN Src : Src[j].name \notin IgnoreSet /\ Src[j].name \in DstNames
    /\ \E j \in DOMAIN Src : Logged("INFO --Report already exists in the destination. Skipping migration.", j)

\* C4: every import call is preceded by an archive call for the same report,
\* itself preceded by that report's export; the archive call carries exactly
\* the exported bytes and the report's name, and so does the import call.
C4_ArchiveBeforeImportSameBytes ==
    \A k \in DOMAIN calls :
        calls[k].fn = "import_report" =>
            \E e \in DOMAIN calls, u \in DOMAIN calls :
                /\ e < u /\ u < k
                /\ calls[e].fn = "export_report" /\ calls[e].idx = calls[k].idx
                /\ calls[e].ok
                /\ calls[u].fn = "upload_report_to_gcs" /\ calls[u].idx = calls[k].idx
                /\ calls[u].content = calls[e].content
                /\ calls[u].name = Src[calls[k].idx].name
                /\ calls[k].content = calls[e].content
                /\ calls[k].name = Src[calls[k].idx].name

C4_Witness ==
    /\ pc = "done"
    /\ \E k \in DOMAIN calls, m \in DOMAIN calls :
          /\ calls[k].fn = "import_report" /\ calls[m].fn = "import_report"
          /\ calls[k].content # calls[m].content

\* C5: an archive or import call for a report is always preceded by an export
\* of that report that returned non-empty content; a report whose export
\* raised or returned empty content has no archive and no import call.
C5_ImportOnlyAfterNonEmptyExport ==
    /\ \A k \in DOMAIN calls :
          calls[k].fn \in {"upload_report_to_gcs", "import_report"} =>
              \E e \in DOMAIN calls :
                  /\ e < k
                  /\ calls[e].fn = "export_report" /\ calls[e].idx = calls[k].idx
                  /\ calls[e].ok /\ calls[e].content # <<>>
    /\ \A e \in DOMAIN calls :
          (calls[e].fn = "export_report" /\ (~calls[e].ok \/ calls[e].content = <<>>)) =>
              /\ CallsFor(calls[e].idx, "upload_report_to_gcs") = {}
              /\ CallsFor(calls[e].idx, "import_report") = {}

C5_Witness ==
    /\ pc = "done"
    /\ \E e \in DOMAIN calls :
          calls[e].fn = "export_report" /\ calls[e].ok /\ calls[e].content = <<>>
    /\ \E k \in DOMAIN calls : calls[k].fn = "import_report"

\* C6: in a run that found both workspaces, when two source reports have the
\* same name and the destination catalog does not list that name, the first is
\* migrated and appended to the in-memory destination list, and no call is
\* made for the second.
C6_DuplicateNameMigratedOnce ==
    \A j1 \in DOMAIN Src, j2 \in DOMAIN Src :
        ( /\ WorkspacesFound
          /\ j1 < j2
          /\ Src[j1].name = Src[j2].name
          /\ Src[j1].name \notin DstNames
          /\ Migrated(j1) )
        => /\ Src[j1] \in Range(dst_reports_dict.val)
           /\ ~AnyCallFor(j2)

\* C7: in a run that found both workspaces, when the export of a source report
\* raises, a failure is logged for that report, no archive or import call is
\* made for it, and the run is not aborted.
C7_ExportErrorDoesNotAbort ==
    \A e \in DOMAIN calls :
        (WorkspacesFound /\ calls[e].fn = "export_report" /\ ~calls[e].ok) =>
            /\ Logged("ERROR -- Report Migration Failed for", calls[e].idx)
            /\ CallsFor(calls[e].idx, "upload_report_to_gcs") = {}
            /\ CallsFor(calls[e].idx, "import_report") = {}
            /\ pc # "aborted"

\* C8: when a catalog listing gets a non-success status, the error is logged,
\* get_reports returns None, and the run is not aborted.
C8_ListingErrorIsNoReports ==
    /\ (src_status \notin {0, HTTP_OK}) =>
          /\ Logged("Error retrieving the list of reports", 0)
          /\ source_reports_dict.isNone
          /\ pc # "aborted"
    /\ (dst_status \notin {0, HTTP_OK}) =>
          /\ Logged("Error retrieving the list of reports", 0)
          /\ dst_reports_dict.isNone
          /\ pc # "aborted"

\* C9: in a run that found both workspaces, when the import of a report is
\* answered with a status other than 202, the report is not logged as
\* successfully migrated, and the run is not aborted.
C9_ImportRejectionLoggedAsFailure ==
    \A k \in DOMAIN calls :
        (WorkspacesFound /\ calls[k].fn = "import_report" /\ ~calls[k].ok) =>
            /\ ~Logged("INFO --Report Migration Successful for Report ID", calls[k].idx)
            /\ pc # "aborted"

SetupFailed ==
    \/ error = "SecretError"
    \/ vgm_token_status \notin {0, HTTP_OK}
    \/ ft_token_status \notin {0, HTTP_OK}
    \/ source_workspace_id = "None"
    \/ target_workspace_id = "None"

\* C10: after a secret resolution failure, a non-success token response or a
\* workspace name that is not found in a tenant, no export, archive or import
\* call is ever made and main does not return normally.
C10_SetupErrorAbortsBeforeAnyCall ==
    SetupFailed => calls = <<>> /\ pc # "done"

====
